---- MODULE Spec2Model ----
(***************************************************************************)
(* Dashboard (Connection Manager) and RealTimeUpdates (Event Feed) of the  *)
(* disaster-response dashboard client.                                     *)
(*                                                                         *)
(* Dashboard opens one socket.io socket per run of its [token] effect and  *)
(* closes it in the effect's cleanup.  RealTimeUpdates registers listeners *)
(* on the socket it is handed and keeps the most recent updates.           *)
(*                                                                         *)
(* One action is one macrotask of the browser: a socket event with every   *)
(* listener it calls, or a React commit together with the effects and the  *)
(* re-render those effects schedule.                                       *)
(***************************************************************************)
EXTENDS Integers, Sequences, FiniteSets, Bags, TLC

(* ---- bounds of the model ---- *)
MaxSockets == 2     \* io() calls in one behaviour
MaxMsgs == 2        \* channel messages delivered in one behaviour
MaxClock == 1       \* Date.now() ranges over 0..MaxClock
MaxRequests == 4    \* fetch() calls of a page in one behaviour

(* ---- program constants ---- *)
SliceEnd == 49      \* prev.slice(0, 49)
Capacity == SliceEnd + 1

Null == "null"
Tokens == {"t1", "t2"}
Channels == {"disaster-update", "resource-update", "report-update", "social_media_updated"}
Events == {"connect", "disconnect"} \cup Channels
Randoms == {1, 2}           \* values Math.random() may return

\* The messages the backend may push: one per channel, payloads opaque to the feed.
Messages ==
    { [channel |-> "disaster-update", payload |-> "{id: 7}"],
      [channel |-> "resource-update", payload |-> "{id: 3}"],
      [channel |-> "report-update", payload |-> "null"],
      [channel |-> "social_media_updated", payload |-> "malformed"] }

VARIABLES
    dashMounted,    \* Dashboard is rendered
    token,          \* Dashboard's token prop
    socket,         \* Dashboard's socket state: an index of sockets, 0 for null
    dashConnected,  \* Dashboard's isConnected state
    sockets,        \* every socket io() has returned, in order of creation
    auth,           \* the auth.token option of the latest io() call
    rtuMounted,     \* RealTimeUpdates is rendered (the realtime tab is selected)
    updates,        \* RealTimeUpdates' updates state
    rtuConnected,   \* RealTimeUpdates' isConnected state
    attached,       \* the socket whose cleanup RealTimeUpdates' effect holds, 0 for none
    now,            \* the clock Date.now() reads
    rcvCount,       \* history: channel messages some listener has received so far
    prefilled,      \* history: records the behaviour started with
    created,        \* history: the ids of the records addUpdate has built, a bag
    notifs,         \* history: the last two arguments of Dashboard's setIsConnected
    lastOp,         \* history: the operation that led to this state, and the
                    \* number of records it found retained
    disasterMgmt,   \* DisasterManagement's states, a record
    resourceMgmt,   \* ResourceManagement's states, a record
    requests,       \* the fetch() calls of the page that are in flight, in the
                    \* order they were started
    started,        \* history: fetch() calls started so far
    failed          \* history: some list request has failed

\* The states of the pages and their requests.
pages == <<disasterMgmt, resourceMgmt, requests, started, failed>>

vars == <<dashMounted, token, socket, dashConnected, sockets, auth, rtuMounted,
          updates, rtuConnected, attached, now, rcvCount, prefilled,
          created, notifs, lastOp, pages>>

Min(a, b) == IF a < b THEN a ELSE b

Op(name) == [op |-> name, had |-> Len(updates)]

(* ---- listeners and the emitter ---- *)

\* A registered listener is named by the component whose closure it is; the
\* closures of an instance that has unmounted are "unmounted": their state setters
\* do nothing.
DashListener == "Dashboard"
FeedListener == "RealTimeUpdates"
Unmounted == "unmounted"

NoCallbacks == [e \in Events |-> <<>>]

\* socket.on(event, fn): append fn to the event's callbacks.
SocketOn(cbs, event, fn) == [cbs EXCEPT ![event] = Append(@, fn)]

\* socket.off(event) with no listener argument: drop every callback of the event.
SocketOff(cbs, event) == [cbs EXCEPT ![event] = <<>>]

\* Number of callbacks in L that are closures of owner.
RECURSIVE CountOwner(_, _)
CountOwner(L, owner) ==
    IF L = <<>> THEN 0
    ELSE (IF Head(L) = owner THEN 1 ELSE 0) + CountOwner(Tail(L), owner)

\* The component owner unmounts: its closures on every socket that can still emit
\* go stale.
Retire(ss, owner) ==
    [i \in 1..Len(ss) |->
        IF ss[i].closed THEN ss[i]
        ELSE [ss[i] EXCEPT !.callbacks =
                [e \in Events |->
                    [j \in 1..Len(ss[i].callbacks[e]) |->
                        IF ss[i].callbacks[e][j] = owner THEN Unmounted
                        ELSE ss[i].callbacks[e][j]]]]]

(* ---- Dashboard ---- *)

\* The last two setIsConnected arguments after n more calls with v.
RECURSIVE Notified(_, _, _)
Notified(w, n, v) ==
    IF n = 0 THEN w
    ELSE Notified(IF Len(w) < 2 THEN Append(w, v) ELSE <<w[2], v>>, n - 1, v)

\* Mutant of TokenDepChanged: the effect has no dependency array and runs after
\* every render.
TokenDepChangedAlways(prev, next) == TRUE

\* The effect's dependency array [token]: the effect runs again when the token of
\* this render differs from the token of the previous one.
TokenDepChanged(prev, next) == prev # next

\* Mutant of IoAuth: the effect reads the token of the previous render.
IoAuthStale(tok) == token

\* The auth option of the io() call: { token }.
IoAuth(tok) == tok

\* The socket io() returns, after the two newSocket.on calls.
NewSocket ==
    [closed |-> FALSE, connected |-> FALSE,
     callbacks |-> SocketOn(SocketOn(NoCallbacks, "connect", DashListener),
                            "disconnect", DashListener)]

\* Mutant of SocketClose: the socket is disconnected but goes on receiving.
SocketCloseStaysOpen(s) == [s EXCEPT !.connected = FALSE]

\* newSocket.close(): the socket is disconnected and receives nothing any more;
\* its listeners stay registered.
SocketClose(s) == [s EXCEPT !.closed = TRUE, !.connected = FALSE]

\* Mutant of DashboardCleanup: the effect returns no cleanup.
DashboardCleanupLeaks(ss, s) == ss

\* The cleanup of Dashboard's effect, for the socket s the effect created.
DashboardCleanup(ss, s) == [ss EXCEPT ![s] = SocketClose(@)]

(* ---- RealTimeUpdates ---- *)

\* Mutant of FeedAttach: the disaster-update listener is registered twice.
FeedAttachDoubles(cbs) ==
    LET c1 == SocketOn(cbs, "connect", FeedListener)
        c2 == SocketOn(c1, "disconnect", FeedListener)
        c3 == SocketOn(SocketOn(c2, "disaster-update", FeedListener),
                       "disaster-update", FeedListener)
        c4 == SocketOn(c3, "resource-update", FeedListener)
        c5 == SocketOn(c4, "report-update", FeedListener)
    IN  SocketOn(c5, "social_media_updated", FeedListener)

\* The six socket.on calls of the effect.
FeedAttach(cbs) ==
    LET c1 == SocketOn(cbs, "connect", FeedListener)
        c2 == SocketOn(c1, "disconnect", FeedListener)
        c3 == SocketOn(c2, "disaster-update", FeedListener)
        c4 == SocketOn(c3, "resource-update", FeedListener)
        c5 == SocketOn(c4, "report-update", FeedListener)
    IN  SocketOn(c5, "social_media_updated", FeedListener)

\* Mutant of FeedCleanup: the channel listeners are left registered.
FeedCleanupKeepsChannels(cbs) == SocketOff(SocketOff(cbs, "connect"), "disconnect")

\* The six socket.off calls of the effect's cleanup.
FeedCleanup(cbs) ==
    LET c1 == SocketOff(cbs, "connect")
        c2 == SocketOff(c1, "disconnect")
        c3 == SocketOff(c2, "disaster-update")
        c4 == SocketOff(c3, "resource-update")
        c5 == SocketOff(c4, "report-update")
    IN  SocketOff(c5, "social_media_updated")

\* Mutant of ListenerType: the resource-update listener was copied from the
\* disaster-update one and still passes its type.
ListenerTypeMislabels(ch) ==
    CASE ch = "disaster-update" -> "disaster-update"
      [] ch = "resource-update" -> "disaster-update"
      [] ch = "report-update" -> "report-update"
      [] ch = "social_media_updated" -> "social_media_updated"

\* The type each channel's listener passes to addUpdate.
ListenerType(ch) ==
    CASE ch = "disaster-update" -> "disaster-update"
      [] ch = "resource-update" -> "resource-update"
      [] ch = "report-update" -> "report-update"
      [] ch = "social_media_updated" -> "social_media_updated"

\* The record addUpdate builds; rcv is the receipt number of the message (history).
NewUpdate(type, data, t, r, k) ==
    [id |-> <<type, t, r>>, type |-> type, data |-> data, timestamp |-> t, rcv |-> k]

\* Mutants of addUpdate: one record too many is kept; the tail of prev is kept
\* instead of its head; the new record goes to the end.
addUpdateOffByOne(prev, newUpdate) ==
    <<newUpdate>> \o SubSeq(prev, 1, Min(Len(prev), SliceEnd + 1))

addUpdateKeepsTail(prev, newUpdate) ==
    <<newUpdate>> \o SubSeq(prev, Len(prev) - Min(Len(prev), SliceEnd) + 1, Len(prev))

addUpdateAppends(prev, newUpdate) ==
    SubSeq(prev, 1, Min(Len(prev), SliceEnd)) \o <<newUpdate>>

\* prev => [newUpdate, ...prev.slice(0, 49)]
addUpdate(prev, newUpdate) ==
    <<newUpdate>> \o SubSeq(prev, 1, Min(Len(prev), SliceEnd))

\* Mutant of clearUpdates: only the newest record is removed.
clearUpdatesDropsOne(prev) == IF prev = <<>> THEN <<>> ELSE Tail(prev)

\* setUpdates([])
clearUpdates(prev) == <<>>

\* The body of RealTimeUpdates' effect for socket prop s: the sockets afterwards.
FeedEffect(ss, s) ==
    IF s = 0 THEN ss
    ELSE [ss EXCEPT ![s].callbacks = FeedAttach(@)]

\* Mutant of FeedDetach: the effect returns no cleanup.
FeedDetachNothing(ss, s) == ss

\* Mutant of FeedDetach: the cleanup also closes the socket it was handed.
FeedDetachCloses(ss, s) ==
    IF s = 0 THEN ss
    ELSE [ss EXCEPT ![s] = SocketClose([@ EXCEPT !.callbacks = FeedCleanup(@)])]

\* The cleanup the effect returned for socket s (none when it returned early).
FeedDetach(ss, s) ==
    IF s = 0 THEN ss
    ELSE [ss EXCEPT ![s].callbacks = FeedCleanup(@)]

\* Mutant of FeedConnected: a null socket resets the flag.
FeedConnectedResets(ss, s, prev) == IF s = 0 THEN FALSE ELSE ss[s].connected

\* RealTimeUpdates' isConnected after its effect has run for socket prop s, prev
\* being its value before: `if (!socket) return; setIsConnected(socket.connected)`.
FeedConnected(ss, s, prev) == IF s = 0 THEN prev ELSE ss[s].connected

(* ---- initial state ---- *)

\* A page that is not shown has no state and no request.
NotShown == "not shown"

PagesIdle ==
    /\ disasterMgmt = NotShown
    /\ resourceMgmt = NotShown
    /\ requests = <<>>
    /\ started = 0
    /\ failed = FALSE

\* Nothing is rendered yet and no socket exists.
InitSockets ==
    /\ dashMounted = FALSE
    /\ token = Null
    /\ socket = 0
    /\ dashConnected = FALSE
    /\ sockets = <<>>
    /\ auth = Null
    /\ rtuMounted = FALSE
    /\ updates = <<>>
    /\ rtuConnected = FALSE
    /\ attached = 0
    /\ now = 0
    /\ rcvCount = 0
    /\ prefilled = 0
    /\ created = EmptyBag
    /\ notifs = <<>>
    /\ lastOp = [op |-> "init", had |-> 0]

Init == InitSockets /\ PagesIdle

(* ---- actions ---- *)

\* Dashboard is rendered with token tok: useState initial values, then the effect.
DashboardMount(tok) ==
    /\ ~dashMounted
    /\ Len(sockets) < MaxSockets
    /\ dashMounted' = TRUE
    /\ token' = tok
    /\ dashConnected' = FALSE
    /\ sockets' = Append(sockets, NewSocket)
    /\ auth' = IoAuth(tok)
    /\ socket' = Len(sockets) + 1
    /\ lastOp' = Op("mount")
    /\ UNCHANGED <<rtuMounted, updates, rtuConnected, attached, now,
                   rcvCount, prefilled, created, notifs>>

\* Mutant of DashboardTokenChange: RealTimeUpdates is keyed by the socket, so the
\* new socket gives a new instance with an empty list.
DashboardTokenChangeRemounts(tok) ==
    /\ dashMounted
    /\ TokenDepChanged(token, tok)
    /\ Len(sockets) < MaxSockets
    /\ LET old == sockets[socket]
           L == old.callbacks["disconnect"]
           new == Len(sockets) + 1
           opened == Append(DashboardCleanup(sockets, socket), NewSocket)
       IN  /\ token' = tok
           /\ auth' = IoAuth(tok)
           /\ socket' = new
           /\ dashConnected' =
                IF old.connected /\ CountOwner(L, DashListener) > 0
                THEN FALSE ELSE dashConnected
           /\ notifs' = IF old.connected
                        THEN Notified(notifs, CountOwner(L, DashListener), "DISCONNECTED")
                        ELSE notifs
           /\ IF rtuMounted
              THEN /\ sockets' = FeedEffect(FeedDetach(opened, attached), new)
                   /\ attached' = new
                   /\ rtuConnected' = FeedConnected(opened, new, FALSE)
                   /\ updates' = <<>>
              ELSE /\ sockets' = opened
                   /\ UNCHANGED <<attached, rtuConnected, updates>>
    /\ lastOp' = Op("tokenChange")
    /\ UNCHANGED <<dashMounted, rtuMounted, now,
                   rcvCount, prefilled, created>>

\* Dashboard is re-rendered with another token: the effect's cleanup closes the
\* old socket (a connected socket emits disconnect from close()), the effect opens
\* a new one, and the re-render setSocket schedules re-runs RealTimeUpdates' effect.
DashboardTokenChange(tok) ==
    /\ dashMounted
    /\ TokenDepChanged(token, tok)
    /\ Len(sockets) < MaxSockets
    /\ LET old == sockets[socket]
           L == old.callbacks["disconnect"]
           new == Len(sockets) + 1
           opened == Append(DashboardCleanup(sockets, socket), NewSocket)
       IN  /\ token' = tok
           /\ auth' = IoAuth(tok)
           /\ socket' = new
           /\ dashConnected' =
                IF old.connected /\ CountOwner(L, DashListener) > 0
                THEN FALSE ELSE dashConnected
           /\ notifs' = IF old.connected
                        THEN Notified(notifs, CountOwner(L, DashListener), "DISCONNECTED")
                        ELSE notifs
           /\ IF rtuMounted
              THEN /\ sockets' = FeedEffect(FeedDetach(opened, attached), new)
                   /\ attached' = new
                   /\ rtuConnected' = FeedConnected(opened, new, rtuConnected)
              ELSE /\ sockets' = opened
                   /\ UNCHANGED <<attached, rtuConnected>>
    /\ lastOp' = Op("tokenChange")
    /\ UNCHANGED <<dashMounted, rtuMounted, updates, now,
                   rcvCount, prefilled, created>>

\* Dashboard is rendered again with the token it has (its parent re-renders, or
\* one of its own states changes): the effect's dependency is unchanged, neither
\* the cleanup nor the effect runs.
DashboardRerender(tok) ==
    /\ dashMounted
    /\ ~TokenDepChanged(token, tok)
    /\ token' = tok
    /\ lastOp' = Op("render")
    /\ UNCHANGED <<dashMounted, socket, dashConnected, sockets, auth, rtuMounted,
                   updates, rtuConnected, attached, now, rcvCount, prefilled,
                   created, notifs>>

\* Dashboard is removed: its cleanup closes the socket, then RealTimeUpdates'
\* cleanup (if it is mounted) removes its listeners; all component state is gone.
DashboardUnmount ==
    /\ dashMounted
    /\ LET old == sockets[socket]
           L == old.callbacks["disconnect"]
           closed == DashboardCleanup(sockets, socket)
           detached == IF rtuMounted THEN FeedDetach(closed, attached) ELSE closed
       IN  /\ notifs' = IF old.connected
                        THEN Notified(notifs, CountOwner(L, DashListener), "DISCONNECTED")
                        ELSE notifs
           /\ sockets' = Retire(Retire(detached, FeedListener), DashListener)
    /\ dashMounted' = FALSE
    /\ token' = Null
    /\ socket' = 0
    /\ dashConnected' = FALSE
    /\ rtuMounted' = FALSE
    /\ updates' = <<>>
    /\ rtuConnected' = FALSE
    /\ attached' = 0
    /\ lastOp' = Op("unmount")
    /\ UNCHANGED <<auth, now, rcvCount, prefilled, created>>

\* Mutant of RealTimeMount: the initial list is read from a copy of the newest
\* record that outlives the instance.
RealTimeMountRestores ==
    /\ dashMounted
    /\ ~rtuMounted
    /\ rtuMounted' = TRUE
    /\ updates' = (IF rcvCount = 0 THEN <<>>
                   ELSE <<NewUpdate("disaster-update", "{id: 7}", 0, 1, rcvCount)>>)
    /\ rtuConnected' = FeedConnected(sockets, socket, FALSE)
    /\ sockets' = FeedEffect(sockets, socket)
    /\ attached' = socket
    /\ lastOp' = Op("selectTab")
    /\ UNCHANGED <<auth, dashMounted, token, socket, dashConnected, now,
                   rcvCount, prefilled, created, notifs>>

\* The realtime tab is selected: RealTimeUpdates mounts and its effect runs.
RealTimeMount ==
    /\ dashMounted
    /\ ~rtuMounted
    /\ rtuMounted' = TRUE
    /\ updates' = <<>>
    /\ rtuConnected' = FeedConnected(sockets, socket, FALSE)
    /\ sockets' = FeedEffect(sockets, socket)
    /\ attached' = socket
    /\ lastOp' = Op("selectTab")
    /\ UNCHANGED <<auth, dashMounted, token, socket, dashConnected, now,
                   rcvCount, prefilled, created, notifs>>

\* Another tab is selected: RealTimeUpdates unmounts and its cleanup runs.
RealTimeUnmount ==
    /\ rtuMounted
    /\ rtuMounted' = FALSE
    /\ updates' = <<>>
    /\ rtuConnected' = FALSE
    /\ sockets' = Retire(FeedDetach(sockets, attached), FeedListener)
    /\ attached' = 0
    /\ lastOp' = Op("leaveTab")
    /\ UNCHANGED <<auth, dashMounted, token, socket, dashConnected, now,
                   rcvCount, prefilled, created, notifs>>

\* The transport of socket s reports that the connection is established.
SocketConnect(s) ==
    /\ ~sockets[s].closed
    /\ ~sockets[s].connected
    /\ LET L == sockets[s].callbacks["connect"]
       IN  /\ dashConnected' = IF CountOwner(L, DashListener) > 0 THEN TRUE ELSE dashConnected
           /\ rtuConnected' = IF CountOwner(L, FeedListener) > 0 THEN TRUE ELSE rtuConnected
           /\ notifs' = Notified(notifs, CountOwner(L, DashListener), "CONNECTED")
    /\ sockets' = [sockets EXCEPT ![s].connected = TRUE]
    /\ lastOp' = Op("connect")
    /\ UNCHANGED <<auth, dashMounted, token, socket, rtuMounted, updates,
                   attached, now, rcvCount, prefilled, created>>

\* Mutant of SocketDisconnect: the feed's disconnect listener also empties the list.
SocketDisconnectClears(s) ==
    /\ ~sockets[s].closed
    /\ sockets[s].connected
    /\ LET L == sockets[s].callbacks["disconnect"]
       IN  /\ dashConnected' = IF CountOwner(L, DashListener) > 0 THEN FALSE ELSE dashConnected
           /\ rtuConnected' = IF CountOwner(L, FeedListener) > 0 THEN FALSE ELSE rtuConnected
           /\ updates' = IF CountOwner(L, FeedListener) > 0 THEN <<>> ELSE updates
           /\ notifs' = Notified(notifs, CountOwner(L, DashListener), "DISCONNECTED")
    /\ sockets' = [sockets EXCEPT ![s].connected = FALSE]
    /\ lastOp' = Op("disconnect")
    /\ UNCHANGED <<auth, dashMounted, token, socket, rtuMounted,
                   attached, now, rcvCount, prefilled, created>>

\* The transport of socket s reports that the connection is lost.
SocketDisconnect(s) ==
    /\ ~sockets[s].closed
    /\ sockets[s].connected
    /\ LET L == sockets[s].callbacks["disconnect"]
       IN  /\ dashConnected' = IF CountOwner(L, DashListener) > 0 THEN FALSE ELSE dashConnected
           /\ rtuConnected' = IF CountOwner(L, FeedListener) > 0 THEN FALSE ELSE rtuConnected
           /\ notifs' = Notified(notifs, CountOwner(L, DashListener), "DISCONNECTED")
    /\ sockets' = [sockets EXCEPT ![s].connected = FALSE]
    /\ lastOp' = Op("disconnect")
    /\ UNCHANGED <<auth, dashMounted, token, socket, rtuMounted, updates,
                   attached, now, rcvCount, prefilled, created>>

\* The records the callbacks L of a channel build for one message, in call order:
\* every callback of a channel is the feed's and calls addUpdate, the i-th with the
\* random draw rs[i]; live tells whether its setUpdates reaches a mounted instance.
Built(L, type, data, t, rs, k) ==
    [i \in 1..Len(L) |->
        [rec |-> NewUpdate(type, data, t, rs[i], k), live |-> L[i] = FeedListener]]

\* setUpdates(prev => ...) for each built record, in call order.
RECURSIVE Applied(_, _)
Applied(prev, built) ==
    IF built = <<>> THEN prev
    ELSE Applied(IF Head(built).live THEN addUpdate(prev, Head(built).rec) ELSE prev,
                 Tail(built))

\* The ids of the built records, added to the bag b.
RECURSIVE Logged(_, _)
Logged(b, built) ==
    IF built = <<>> THEN b
    ELSE Logged(b (+) SetToBag({Head(built).rec.id}), Tail(built))

\* Socket s delivers a message on channel ch with payload data at time t: the
\* emitter calls the channel's callbacks in order, or nobody when there is none.
Receive(s, ch, data, t, rs) ==
    /\ ~sockets[s].closed
    /\ sockets[s].connected
    /\ LET L == sockets[s].callbacks[ch]
           built == Built(L, ListenerType(ch), data, t, rs, rcvCount + 1)
       IN  /\ Len(rs) = Len(L)
           /\ IF L = <<>>
              THEN UNCHANGED <<created, updates, now, rcvCount>>
              ELSE /\ rcvCount < prefilled + MaxMsgs
                   /\ created' = Logged(created, built)
                   /\ updates' = Applied(updates, built)
                   /\ now' = t
                   /\ rcvCount' = rcvCount + 1
    /\ lastOp' = Op("message")
    /\ UNCHANGED <<auth, dashMounted, token, socket, dashConnected, sockets,
                   rtuMounted, rtuConnected, attached, prefilled, notifs>>

\* Mutant of Clear: the button also resets the feed's connection flag.
ClearAlsoDisconnects ==
    /\ rtuMounted
    /\ updates' = clearUpdates(updates)
    /\ rtuConnected' = FALSE
    /\ lastOp' = Op("clear")
    /\ UNCHANGED <<auth, dashMounted, token, socket, dashConnected, sockets,
                   rtuMounted, attached, now, rcvCount,
                   prefilled, created, notifs>>

\* The Clear button of RealTimeUpdates.
Clear ==
    /\ rtuMounted
    /\ updates' = clearUpdates(updates)
    /\ lastOp' = Op("clear")
    /\ UNCHANGED <<auth, dashMounted, token, socket, dashConnected, sockets,
                   rtuMounted, rtuConnected, attached, now, rcvCount,
                   prefilled, created, notifs>>

\* Random draws for the callbacks of one message (at most two are ever registered).
DrawsOf(R) == {<<>>} \cup {<<r>> : r \in R} \cup {<<r1, r2>> : r1 \in R, r2 \in R}

\* The steps of the program, with Math.random() ranging over R and the clock
\* advancing by at most maxTick between two messages.
NextOver(R, maxTick) ==
    \/ \E tok \in Tokens \cup {Null} : DashboardMount(tok) /\ UNCHANGED pages
    \/ \E tok \in Tokens \cup {Null} : DashboardTokenChange(tok) /\ UNCHANGED pages
    \/ \E tok \in Tokens \cup {Null} : DashboardRerender(tok) /\ UNCHANGED pages
    \/ DashboardUnmount /\ UNCHANGED pages
    \/ RealTimeMount /\ UNCHANGED pages
    \/ RealTimeUnmount /\ UNCHANGED pages
    \/ \E s \in 1..Len(sockets) : SocketConnect(s) /\ UNCHANGED pages
    \/ \E s \in 1..Len(sockets) : SocketDisconnect(s) /\ UNCHANGED pages
    \/ \E s \in 1..Len(sockets), m \in Messages, t \in now..Min(now + maxTick, MaxClock),
          rs \in DrawsOf(R) : Receive(s, m.channel, m.payload, t, rs) /\ UNCHANGED pages
    \/ Clear /\ UNCHANGED pages

\* The lifecycle of both components; every message arrives in the same millisecond
\* and Math.random() returns the same value.
Next == NextOver({1}, 0)

Spec == Init /\ [][Next]_vars

\* The same steps with Math.random() ranging over Randoms and the clock advancing.
NextIds == NextOver(Randoms, 1)

SpecIds == Init /\ [][NextIds]_vars

(* ---- a feed that has already received messages ---- *)

ChannelOrder ==
    <<"disaster-update", "resource-update", "report-update", "social_media_updated">>

PayloadOf(ch) == (CHOOSE m \in Messages : m.channel = ch).payload

\* The k-th message of a feed that has received messages on the channels in turn,
\* all in millisecond 0, each with its own random draw.
Received(k) ==
    LET ch == ChannelOrder[((k - 1) % 4) + 1]
    IN  NewUpdate(ch, PayloadOf(ch), 0, 100 + k, k)

\* The retained list after n such messages, n <= Capacity.
Filled(n) == [i \in 1..n |-> Received(n - i + 1)]

\* The lengths of the retained list the behaviours start from.
FillLens == {0, 1, SliceEnd - 1, SliceEnd, Capacity}

\* Dashboard is mounted with its socket connected, RealTimeUpdates was mounted before
\* the socket connected and has since received n messages.
InitFeed ==
    \E n \in FillLens :
        /\ dashMounted = TRUE
        /\ token = "t1"
        /\ auth = "t1"
        /\ socket = 1
        /\ dashConnected = TRUE
        /\ sockets = <<[NewSocket EXCEPT !.connected = TRUE,
                                         !.callbacks = FeedAttach(@)]>>
        /\ rtuMounted = TRUE
        /\ updates = Filled(n)
        /\ rtuConnected = TRUE
        /\ attached = 1
        /\ now = 0
        /\ rcvCount = n
        /\ prefilled = n
        /\ created = SetToBag({Received(k).id : k \in 1..n})
        /\ notifs = <<"CONNECTED">>
        /\ lastOp = IF n = 0 THEN [op |-> "connect", had |-> 0]
                    ELSE [op |-> "message", had |-> n - 1]
        /\ PagesIdle

\* Messages, clear, connect/disconnect and the feed's attach/detach.
NextFeed ==
    \/ \E tok \in Tokens \cup {Null} : DashboardTokenChange(tok) /\ UNCHANGED pages
    \/ RealTimeMount /\ UNCHANGED pages
    \/ RealTimeUnmount /\ UNCHANGED pages
    \/ \E s \in 1..Len(sockets) : SocketConnect(s) /\ UNCHANGED pages
    \/ \E s \in 1..Len(sockets) : SocketDisconnect(s) /\ UNCHANGED pages
    \/ \E s \in 1..Len(sockets), m \in Messages, rs \in DrawsOf({1}) :
          Receive(s, m.channel, m.payload, now, rs) /\ UNCHANGED pages
    \/ Clear /\ UNCHANGED pages

SpecFeed == InitFeed /\ [][NextFeed]_vars

(* ---- RealTimeUpdates under any socket prop ---- *)

\* A socket of the parent that carries no listener yet.
ParentSocket == [closed |-> FALSE, connected |-> FALSE, callbacks |-> NoCallbacks]

\* RealTimeUpdates is not rendered yet; its parent owns two sockets and will hand
\* it one of them or null.
InitProp ==
    /\ dashMounted = FALSE
    /\ token = Null
    /\ socket = 0
    /\ dashConnected = FALSE
    /\ sockets = <<ParentSocket, ParentSocket>>
    /\ auth = Null
    /\ rtuMounted = FALSE
    /\ updates = <<>>
    /\ rtuConnected = FALSE
    /\ attached = 0
    /\ now = 0
    /\ rcvCount = 0
    /\ prefilled = 0
    /\ created = EmptyBag
    /\ notifs = <<>>
    /\ lastOp = [op |-> "init", had |-> 0]
    /\ PagesIdle

\* RealTimeUpdates is rendered for the first time with socket prop h (0 for null):
\* useState initial values, then the effect.
FeedMountWith(h) ==
    /\ ~rtuMounted
    /\ rtuMounted' = TRUE
    /\ socket' = h
    /\ updates' = <<>>
    /\ rtuConnected' = FeedConnected(sockets, h, FALSE)
    /\ sockets' = FeedEffect(sockets, h)
    /\ attached' = h
    /\ lastOp' = Op("feedMount")
    /\ UNCHANGED <<auth, dashMounted, token, dashConnected, now,
                   rcvCount, prefilled, created, notifs>>

\* RealTimeUpdates is re-rendered with another socket prop h: the cleanup the
\* previous run returned (if it returned one), then the effect.
FeedSocketChange(h) ==
    /\ rtuMounted
    /\ h # socket
    /\ socket' = h
    /\ rtuConnected' = FeedConnected(sockets, h, rtuConnected)
    /\ sockets' = FeedEffect(FeedDetach(sockets, attached), h)
    /\ attached' = h
    /\ lastOp' = Op("socketProp")
    /\ UNCHANGED <<auth, dashMounted, token, dashConnected, rtuMounted, updates,
                   now, rcvCount, prefilled, created, notifs>>

NextProp ==
    \/ \E h \in 0..Len(sockets) : FeedMountWith(h) /\ UNCHANGED pages
    \/ \E h \in 0..Len(sockets) : FeedSocketChange(h) /\ UNCHANGED pages
    \/ RealTimeUnmount /\ UNCHANGED pages
    \/ \E s \in 1..Len(sockets) : SocketConnect(s) /\ UNCHANGED pages
    \/ \E s \in 1..Len(sockets) : SocketDisconnect(s) /\ UNCHANGED pages
    \/ \E s \in 1..Len(sockets), m \in Messages, rs \in DrawsOf({1}) :
          Receive(s, m.channel, m.payload, now, rs) /\ UNCHANGED pages
    \/ Clear /\ UNCHANGED pages

SpecProp == InitProp /\ [][NextProp]_vars

(* ---- a feed that receives any payload on any channel ---- *)

\* Payloads of every kind the backend may send; the feed never looks inside.
Payloads == {"null", "a string", "{id: 7}", "{malformed"}

\* The payloads sent on channel ch, each marked with the channel it was sent on.
Sent(ch) == {<<ch, p>> : p \in Payloads}

\* RealTimeUpdates is attached to a connected socket and has received nothing.
InitPayload == InitFeed /\ prefilled = 0

NextPayload ==
    \/ \E s \in 1..Len(sockets), ch \in Channels, rs \in DrawsOf({1}) :
          \E data \in Sent(ch) : Receive(s, ch, data, now, rs) /\ UNCHANGED pages
    \/ Clear /\ UNCHANGED pages

SpecPayload == InitPayload /\ [][NextPayload]_vars

(* ---- Index: login and logout ---- *)

\* Index's isAuthenticated: Index renders Dashboard when it is true and LoginForm
\* when it is false.
isAuthenticated == dashMounted

\* Index after its mount effect: with a saved token in localStorage it shows
\* Dashboard for that token, with none it shows LoginForm.
InitIndex ==
    \E savedToken \in Tokens \cup {Null} :
        /\ dashMounted = (savedToken # Null)
        /\ token = savedToken
        /\ auth = (IF savedToken # Null THEN IoAuth(savedToken) ELSE Null)
        /\ socket = (IF savedToken # Null THEN 1 ELSE 0)
        /\ sockets = (IF savedToken # Null THEN <<NewSocket>> ELSE <<>>)
        /\ dashConnected = FALSE
        /\ rtuMounted = FALSE
        /\ updates = <<>>
        /\ rtuConnected = FALSE
        /\ attached = 0
        /\ now = 0
        /\ rcvCount = 0
        /\ prefilled = 0
        /\ created = EmptyBag
        /\ notifs = <<>>
        /\ lastOp = [op |-> (IF savedToken # Null THEN "mount" ELSE "init"), had |-> 0]
        /\ PagesIdle

\* LoginForm calls onLogin: setToken(newToken) and setIsAuthenticated(true), and
\* Index renders Dashboard with the token.
handleLogin(newToken) ==
    /\ ~isAuthenticated
    /\ DashboardMount(newToken)

\* Mutant of handleLogout: only the token is cleared, Dashboard stays rendered.
handleLogoutKeepsDashboard ==
    /\ isAuthenticated
    /\ DashboardTokenChange(Null)

\* Dashboard's logout button calls onLogout: setToken(null) and
\* setIsAuthenticated(false) in one batch, and Index renders LoginForm instead of
\* Dashboard.
handleLogout ==
    /\ isAuthenticated
    /\ DashboardUnmount

\* Logins and logouts, with everything that may happen while Dashboard is shown.
NextIndex ==
    \/ \E newToken \in Tokens : handleLogin(newToken) /\ UNCHANGED pages
    \/ handleLogout /\ UNCHANGED pages
    \/ \E tok \in Tokens : DashboardRerender(tok) /\ UNCHANGED pages
    \/ RealTimeMount /\ UNCHANGED pages
    \/ RealTimeUnmount /\ UNCHANGED pages
    \/ \E s \in 1..Len(sockets) : SocketConnect(s) /\ UNCHANGED pages
    \/ \E s \in 1..Len(sockets) : SocketDisconnect(s) /\ UNCHANGED pages
    \/ \E s \in 1..Len(sockets), m \in Messages, rs \in DrawsOf({1}) :
          Receive(s, m.channel, m.payload, now, rs) /\ UNCHANGED pages
    \/ Clear /\ UNCHANGED pages

SpecIndex == InitIndex /\ [][NextIndex]_vars

(* ---- DisasterManagement ---- *)

\* The socket variables, which the pages never touch.
socketVars == <<dashMounted, token, socket, dashConnected, sockets, auth, rtuMounted,
                updates, rtuConnected, attached, now, rcvCount, prefilled,
                created, notifs, lastOp>>

NoFilter == ""                      \* filterTag of the unfiltered list
FilterTags == {"flood", "fire"}     \* tags the user may filter by
DisasterIds == {"d1"}               \* disasters shown on cards
EmptyForm == [fields |-> "empty"]   \* formData of resetForm
FormTexts == {[fields |-> "typed"]} \* what the user may type into the form
Outcomes == {"ok", "not ok", "network error"}

\* The list the server returns for the request with tag tag.
Response(tag) == <<"disasters of", tag>>

\* The form handleEdit fills in for disaster d.
FormOf(d) == [fields |-> d]

\* requests without its i-th entry.
Remove(reqs, i) == SubSeq(reqs, 1, i - 1) \o SubSeq(reqs, i + 1, Len(reqs))

\* fetchDisasters() up to its await: setLoading(true) is the caller's part.
ListRequest(tag) ==
    [kind |-> IF tag = NoFilter THEN "fetchDisasters" ELSE "fetchDisastersByTag",
     tag |-> tag]

\* DisasterManagement after its first render and its two effects: both have called
\* fetchDisasters(), the filter being empty.
InitDisasters ==
    /\ InitSockets
    /\ disasterMgmt = [disasters |-> <<>>, loading |-> TRUE, selectedDisaster |-> Null,
                       isDialogOpen |-> FALSE, filterTag |-> NoFilter,
                       formData |-> EmptyForm]
    /\ resourceMgmt = NotShown
    /\ requests = <<ListRequest(NoFilter), ListRequest(NoFilter)>>
    /\ started = 2
    /\ failed = FALSE

\* The filter input, a tag badge or the Clear button sets filterTag; the
\* [filterTag] effect starts the list request for it.
setFilterTag(tag) ==
    /\ ~disasterMgmt.isDialogOpen
    /\ tag # disasterMgmt.filterTag
    /\ started < MaxRequests
    /\ disasterMgmt' = [disasterMgmt EXCEPT !.filterTag = tag, !.loading = TRUE]
    /\ requests' = Append(requests, ListRequest(tag))
    /\ started' = started + 1
    /\ UNCHANGED <<socketVars, resourceMgmt, failed>>

\* The i-th request in flight is a list request and completes: setDisasters(data)
\* when the response is ok, a toast otherwise, and setLoading(false) at the end.
DisastersFetched(i, outcome) ==
    /\ requests[i].kind \in {"fetchDisasters", "fetchDisastersByTag"}
    /\ disasterMgmt' =
          [disasterMgmt EXCEPT
              !.disasters = IF outcome = "ok" THEN Response(requests[i].tag) ELSE @,
              !.loading = FALSE]
    /\ requests' = Remove(requests, i)
    /\ failed' = (failed \/ outcome # "ok")
    /\ UNCHANGED <<socketVars, resourceMgmt, started>>

\* The Add Disaster button: resetForm, and the dialog opens.
DisasterAdd ==
    /\ ~disasterMgmt.isDialogOpen
    /\ disasterMgmt' = [disasterMgmt EXCEPT !.selectedDisaster = Null,
                                            !.formData = EmptyForm,
                                            !.isDialogOpen = TRUE]
    /\ UNCHANGED <<socketVars, resourceMgmt, requests, started, failed>>

\* The edit button of a card; the cards are rendered while loading is false.
DisasterEdit(d) ==
    /\ ~disasterMgmt.isDialogOpen
    /\ ~disasterMgmt.loading
    /\ disasterMgmt.disasters # <<>>
    /\ disasterMgmt' = [disasterMgmt EXCEPT !.selectedDisaster = d,
                                            !.formData = FormOf(d),
                                            !.isDialogOpen = TRUE]
    /\ UNCHANGED <<socketVars, resourceMgmt, requests, started, failed>>

\* The user types into the form of the open dialog.
DisasterType(text) ==
    /\ disasterMgmt.isDialogOpen
    /\ disasterMgmt' = [disasterMgmt EXCEPT !.formData = text]
    /\ UNCHANGED <<socketVars, resourceMgmt, requests, started, failed>>

\* The dialog is dismissed: onOpenChange(false).
DisasterDismiss ==
    /\ disasterMgmt.isDialogOpen
    /\ disasterMgmt' = [disasterMgmt EXCEPT !.isDialogOpen = FALSE]
    /\ UNCHANGED <<socketVars, resourceMgmt, requests, started, failed>>

\* handleSubmit up to its await; the submit button is disabled while loading and
\* the required fields are filled.
DisasterSubmit ==
    /\ disasterMgmt.isDialogOpen
    /\ ~disasterMgmt.loading
    /\ disasterMgmt.formData # EmptyForm
    /\ started < MaxRequests
    /\ disasterMgmt' = [disasterMgmt EXCEPT !.loading = TRUE]
    /\ requests' = Append(requests, [kind |-> "handleSubmit", tag |-> NoFilter])
    /\ started' = started + 1
    /\ UNCHANGED <<socketVars, resourceMgmt, failed>>

\* The i-th request in flight is a submit and completes: on ok fetchDisasters(),
\* resetForm and the dialog closes; on failure a toast; setLoading(false) at the end.
DisasterSubmitted(i, outcome) ==
    /\ requests[i].kind = "handleSubmit"
    /\ IF outcome = "ok"
       THEN /\ started < MaxRequests
            /\ disasterMgmt' = [disasterMgmt EXCEPT !.selectedDisaster = Null,
                                                    !.formData = EmptyForm,
                                                    !.isDialogOpen = FALSE,
                                                    !.loading = FALSE]
            /\ requests' = Append(Remove(requests, i), ListRequest(NoFilter))
            /\ started' = started + 1
       ELSE /\ disasterMgmt' = [disasterMgmt EXCEPT !.loading = FALSE]
            /\ requests' = Remove(requests, i)
            /\ started' = started
    /\ UNCHANGED <<socketVars, resourceMgmt, failed>>

\* handleDelete up to its await, the confirm() accepted.
DisasterDelete(d) ==
    /\ ~disasterMgmt.isDialogOpen
    /\ ~disasterMgmt.loading
    /\ disasterMgmt.disasters # <<>>
    /\ started < MaxRequests
    /\ requests' = Append(requests, [kind |-> "handleDelete", tag |-> NoFilter])
    /\ started' = started + 1
    /\ UNCHANGED <<socketVars, disasterMgmt, resourceMgmt, failed>>

\* The i-th request in flight is a delete and completes: on ok fetchDisasters().
DisasterDeleted(i, outcome) ==
    /\ requests[i].kind = "handleDelete"
    /\ IF outcome = "ok"
       THEN /\ started < MaxRequests
            /\ disasterMgmt' = [disasterMgmt EXCEPT !.loading = TRUE]
            /\ requests' = Append(Remove(requests, i), ListRequest(NoFilter))
            /\ started' = started + 1
       ELSE /\ requests' = Remove(requests, i)
            /\ UNCHANGED <<disasterMgmt, started>>
    /\ UNCHANGED <<socketVars, resourceMgmt, failed>>

NextDisasters ==
    \/ \E tag \in FilterTags \cup {NoFilter} : setFilterTag(tag)
    \/ \E i \in 1..Len(requests), outcome \in Outcomes : DisastersFetched(i, outcome)
    \/ DisasterAdd
    \/ \E d \in DisasterIds : DisasterEdit(d)
    \/ \E text \in FormTexts : DisasterType(text)
    \/ DisasterDismiss
    \/ DisasterSubmit
    \/ \E i \in 1..Len(requests), outcome \in Outcomes : DisasterSubmitted(i, outcome)
    \/ \E d \in DisasterIds : DisasterDelete(d)
    \/ \E i \in 1..Len(requests), outcome \in Outcomes : DisasterDeleted(i, outcome)

SpecDisasters == InitDisasters /\ [][NextDisasters]_vars

(* ---- ResourceManagement ---- *)

NoType == ""                        \* selectedType before a type is selected
ResourceTypes == {"all", "medical"} \* items of the type filter
ResourceIds == {"r1"}               \* resources shown on cards
NoBulk == ""                        \* bulkData of resetForm
BulkTexts == {"Water Bottles, water"}

\* The list the server returns for the type filter.
Resources(type) == <<"resources of", type>>

\* fetchResources() and fetchResourcesByType() up to their await.
ResourceRequest(type) ==
    [kind |-> IF type = "all" THEN "fetchResources" ELSE "fetchResourcesByType",
     type |-> type, bulk |-> FALSE]

\* ResourceManagement after its first render and its effects: the [] effect has
\* called fetchResources(), the [selectedType] effect nothing.
InitResources ==
    /\ InitSockets
    /\ disasterMgmt = NotShown
    /\ resourceMgmt = [resources |-> <<>>, loading |-> TRUE, selectedResource |-> Null,
                       isDialogOpen |-> FALSE, selectedType |-> NoType,
                       bulkMode |-> FALSE, formData |-> EmptyForm, bulkData |-> NoBulk]
    /\ requests = <<ResourceRequest("all")>>
    /\ started = 1
    /\ failed = FALSE

\* The type filter is changed; the [selectedType] effect starts the list request.
setSelectedType(type) ==
    /\ ~resourceMgmt.isDialogOpen
    /\ type # resourceMgmt.selectedType
    /\ started < MaxRequests
    /\ resourceMgmt' = [resourceMgmt EXCEPT !.selectedType = type, !.loading = TRUE]
    /\ requests' = Append(requests, ResourceRequest(type))
    /\ started' = started + 1
    /\ UNCHANGED <<socketVars, disasterMgmt, failed>>

\* The i-th request in flight is a list request and completes.
ResourcesFetched(i, outcome) ==
    /\ requests[i].kind \in {"fetchResources", "fetchResourcesByType"}
    /\ resourceMgmt' =
          [resourceMgmt EXCEPT
              !.resources = IF outcome = "ok" THEN Resources(requests[i].type) ELSE @,
              !.loading = FALSE]
    /\ requests' = Remove(requests, i)
    /\ failed' = (failed \/ outcome # "ok")
    /\ UNCHANGED <<socketVars, disasterMgmt, started>>

\* resetForm of ResourceManagement, applied to its states rm.
resetForm(rm) ==
    [rm EXCEPT !.selectedResource = Null, !.formData = EmptyForm,
               !.bulkData = NoBulk, !.bulkMode = FALSE]

\* The Add Resource button: resetForm, and the dialog opens.
ResourceAdd ==
    /\ ~resourceMgmt.isDialogOpen
    /\ resourceMgmt' = [resetForm(resourceMgmt) EXCEPT !.isDialogOpen = TRUE]
    /\ UNCHANGED <<socketVars, disasterMgmt, requests, started, failed>>

\* The edit button of a card; the cards are rendered while loading is false.
ResourceEdit(r) ==
    /\ ~resourceMgmt.isDialogOpen
    /\ ~resourceMgmt.loading
    /\ resourceMgmt.resources # <<>>
    /\ resourceMgmt' = [resourceMgmt EXCEPT !.selectedResource = r,
                                            !.formData = FormOf(r),
                                            !.bulkMode = FALSE,
                                            !.isDialogOpen = TRUE]
    /\ UNCHANGED <<socketVars, disasterMgmt, requests, started, failed>>

\* The Single and Bulk buttons of the dialog.
setBulkMode(b) ==
    /\ resourceMgmt.isDialogOpen
    /\ resourceMgmt' = [resourceMgmt EXCEPT !.bulkMode = b]
    /\ UNCHANGED <<socketVars, disasterMgmt, requests, started, failed>>

\* The user types into the single form, which the dialog shows in single mode.
ResourceType(text) ==
    /\ resourceMgmt.isDialogOpen
    /\ ~resourceMgmt.bulkMode
    /\ resourceMgmt' = [resourceMgmt EXCEPT !.formData = text]
    /\ UNCHANGED <<socketVars, disasterMgmt, requests, started, failed>>

\* The user types into the bulk textarea, which the dialog shows in bulk mode.
ResourceTypeBulk(text) ==
    /\ resourceMgmt.isDialogOpen
    /\ resourceMgmt.bulkMode
    /\ resourceMgmt' = [resourceMgmt EXCEPT !.bulkData = text]
    /\ UNCHANGED <<socketVars, disasterMgmt, requests, started, failed>>

\* The dialog is dismissed: onOpenChange(false).
ResourceDismiss ==
    /\ resourceMgmt.isDialogOpen
    /\ resourceMgmt' = [resourceMgmt EXCEPT !.isDialogOpen = FALSE]
    /\ UNCHANGED <<socketVars, disasterMgmt, requests, started, failed>>

\* handleSubmit up to its await, in the mode the dialog is in; the submit button is
\* disabled while loading and the required fields are filled.
ResourceSubmit ==
    /\ resourceMgmt.isDialogOpen
    /\ ~resourceMgmt.loading
    /\ IF resourceMgmt.bulkMode THEN resourceMgmt.bulkData # NoBulk
                                ELSE resourceMgmt.formData # EmptyForm
    /\ started < MaxRequests
    /\ resourceMgmt' = [resourceMgmt EXCEPT !.loading = TRUE]
    /\ requests' = Append(requests, [kind |-> "handleSubmit", type |-> NoType,
                                     bulk |-> resourceMgmt.bulkMode])
    /\ started' = started + 1
    /\ UNCHANGED <<socketVars, disasterMgmt, failed>>

\* The i-th request in flight is a submit and completes.  On ok: fetchResources()
\* (and setBulkData('') in bulk mode); on a response that is not ok: a toast; after
\* either, resetForm() and setIsDialogOpen(false).  A network error goes to the
\* catch block and skips them.  setLoading(false) at the end.
ResourceSubmitted(i, outcome) ==
    /\ requests[i].kind = "handleSubmit"
    /\ IF outcome = "ok"
       THEN /\ started < MaxRequests
            /\ resourceMgmt' = [resetForm(resourceMgmt) EXCEPT !.isDialogOpen = FALSE,
                                                               !.loading = FALSE]
            /\ requests' = Append(Remove(requests, i), ResourceRequest("all"))
            /\ started' = started + 1
       ELSE /\ resourceMgmt' =
                  IF outcome = "not ok"
                  THEN [resetForm(resourceMgmt) EXCEPT !.isDialogOpen = FALSE,
                                                      !.loading = FALSE]
                  ELSE [resourceMgmt EXCEPT !.loading = FALSE]
            /\ requests' = Remove(requests, i)
            /\ started' = started
    /\ UNCHANGED <<socketVars, disasterMgmt, failed>>

\* handleDelete up to its await, the confirm() accepted.
ResourceDelete(r) ==
    /\ ~resourceMgmt.isDialogOpen
    /\ ~resourceMgmt.loading
    /\ resourceMgmt.resources # <<>>
    /\ started < MaxRequests
    /\ requests' = Append(requests, [kind |-> "handleDelete", type |-> NoType,
                                     bulk |-> FALSE])
    /\ started' = started + 1
    /\ UNCHANGED <<socketVars, disasterMgmt, resourceMgmt, failed>>

\* The i-th request in flight is a delete and completes: on ok fetchResources().
ResourceDeleted(i, outcome) ==
    /\ requests[i].kind = "handleDelete"
    /\ IF outcome = "ok"
       THEN /\ started < MaxRequests
            /\ resourceMgmt' = [resourceMgmt EXCEPT !.loading = TRUE]
            /\ requests' = Append(Remove(requests, i), ResourceRequest("all"))
            /\ started' = started + 1
       ELSE /\ requests' = Remove(requests, i)
            /\ UNCHANGED <<resourceMgmt, started>>
    /\ UNCHANGED <<socketVars, disasterMgmt, failed>>

NextResources ==
    \/ \E type \in ResourceTypes : setSelectedType(type)
    \/ \E i \in 1..Len(requests), outcome \in Outcomes : ResourcesFetched(i, outcome)
    \/ ResourceAdd
    \/ \E r \in ResourceIds : ResourceEdit(r)
    \/ \E b \in BOOLEAN : setBulkMode(b)
    \/ \E text \in FormTexts : ResourceType(text)
    \/ \E text \in BulkTexts : ResourceTypeBulk(text)
    \/ ResourceDismiss
    \/ ResourceSubmit
    \/ \E i \in 1..Len(requests), outcome \in Outcomes : ResourceSubmitted(i, outcome)
    \/ \E r \in ResourceIds : ResourceDelete(r)
    \/ \E i \in 1..Len(requests), outcome \in Outcomes : ResourceDeleted(i, outcome)

SpecResources == InitResources /\ [][NextResources]_vars

(* ---- the retained list ---- *)

\* C1: in every reachable state the retained updates list holds at most 50
\* records, whatever messages, clears, connects, disconnects, attaches and
\* detaches came before.
C1_AtMostFifty == Len(updates) <= 50

\* A message has arrived at a list of 50 records and the list still has 50.
C1_Witness == lastOp = [op |-> "message", had |-> 50] /\ Len(updates) = 50

\* The retained records are the latest received messages, newest first, without gaps.
NewestFirst == \A i \in 1..Len(updates) : updates[i].rcv = rcvCount - i + 1

\* C2: every received message goes to the front and the list grows by one up to
\* the capacity, so that the list is always the latest received messages, newest
\* first; once more messages than the capacity have been received since the list
\* was empty, it holds exactly the Capacity most recent and none of the older.
C2_KeepsMostRecent ==
    [][/\ NewestFirst'
       /\ rcvCount' # rcvCount => Len(updates') = Min(Len(updates) + 1, Capacity)]_vars

\* More than Capacity messages have been received since the list was empty: the
\* list holds the Capacity latest, and the oldest messages are gone.
C2_Witness ==
    /\ rcvCount > Capacity
    /\ Len(updates) = Capacity
    /\ updates[1].rcv = rcvCount
    /\ updates[Capacity].rcv = rcvCount - Capacity + 1
    /\ \A i \in 1..Len(updates) : updates[i].rcv > rcvCount - Capacity

\* C3: the retained list is in reverse order of receipt, across channels as well
\* as within one: a record received later precedes every record received earlier.
C3_ReverseReceiptOrder ==
    \A i, j \in 1..Len(updates) : i < j => updates[i].rcv > updates[j].rcv

\* disaster-update(7) then resource-update(3) gives [resource-update(3), disaster-update(7)].
C3_Witness ==
    /\ Len(updates) = 2
    /\ updates[1].type = "resource-update" /\ updates[1].data = "{id: 3}"
    /\ updates[2].type = "disaster-update" /\ updates[2].data = "{id: 7}"
    /\ updates[1].rcv = updates[2].rcv + 1

\* C6: right after clearUpdates the retained list is the empty sequence, whatever
\* it held before.
C6_ClearEmpties == lastOp.op = "clear" => updates = <<>>

\* clearUpdates has run on a full list.
C6_Witness == lastOp = [op |-> "clear", had |-> Capacity] /\ updates = <<>>

(* ---- record ids ---- *)

\* C4: no two records addUpdate has ever built, retained or not, have the same id.
C4_UniqueIds == \A id \in BagToSet(created) : CopiesIn(id, created) = 1

(* ---- detach ---- *)

\* The feed's effect is attached to a socket that delivers.
FeedAttached ==
    /\ rtuMounted
    /\ attached # 0
    /\ ~sockets[attached].closed
    /\ sockets[attached].connected

\* C5: a record is built only for a message delivered while the feed is attached,
\* and a record enters the retained list only in the step that delivers its
\* message: a message delivered while the feed is detached is in no later list,
\* also after the feed has attached again.
C5_NoRecordWhileDetached ==
    [][/\ (rcvCount' # rcvCount \/ created' # created) => FeedAttached
       /\ \A i \in 1..Len(updates') :
            \/ \E j \in 1..Len(updates) : updates[j] = updates'[i]
            \/ rcvCount' = rcvCount + 1 /\ updates'[i].rcv = rcvCount']_vars

\* The feed has received a message, has detached since, and a message has just
\* been delivered: no record was built for it.
C5_Witness ==
    /\ lastOp = [op |-> "message", had |-> 0]
    /\ dashMounted /\ ~rtuMounted
    /\ rcvCount = 1 /\ BagCardinality(created) = 1

(* ---- connection state ---- *)

\* C7: no two consecutive setIsConnected calls of Dashboard carry the same state.
C7_NotificationsAlternate == Len(notifs) = 2 => notifs[1] # notifs[2]

\* C8: a connect or a disconnect of the socket leaves the retained list as it was.
C8_SignalsKeepUpdates ==
    [][lastOp'.op \in {"connect", "disconnect"} => updates' = updates]_vars

\* The socket has disconnected while records were retained, and they still are.
C8_Witness ==
    /\ lastOp.op = "disconnect" /\ lastOp.had = 2
    /\ Len(updates) = 2
    /\ ~rtuConnected

(* ---- the transport's lifetime ---- *)

OpenSockets == {s \in 1..Len(sockets) : ~sockets[s].closed}

\* C9: the only socket that is open is the one the mounted Dashboard's effect
\* created last: every earlier one was closed by the effect's cleanup, and none
\* is open once Dashboard has unmounted.
C9_OnlyCurrentSocketOpen ==
    /\ Cardinality(OpenSockets) <= 1
    /\ \A s \in OpenSockets : dashMounted /\ s = socket

\* A credential change and then the unmount have each closed their socket.
C9_Witness ==
    /\ lastOp.op = "unmount"
    /\ Len(sockets) = 2
    /\ sockets[1].closed /\ sockets[2].closed

\* C10: when Dashboard mounts again with the credential of the session before, a
\* new socket is created and every earlier one is closed; from then on a message
\* builds exactly one record when the feed is attached, and none otherwise.
C10_ReopenIsClean ==
    [][/\ (lastOp'.op = "mount" /\ sockets # <<>> /\ auth' = auth) =>
            /\ Len(sockets') = Len(sockets) + 1
            /\ socket' = Len(sockets')
            /\ ~sockets'[socket'].closed
            /\ \A s \in 1..Len(sockets) : sockets'[s].closed
       /\ (lastOp'.op = "message" /\ Len(sockets) >= 2) =>
            LET n == IF FeedAttached THEN 1 ELSE 0
            IN  /\ BagCardinality(created') = BagCardinality(created) + n
                /\ rcvCount' = rcvCount + n
                /\ Len(updates') = Min(Len(updates) + n, Capacity)]_vars

\* The second session's socket has delivered a message to the feed: one record.
C10_Witness ==
    /\ lastOp = [op |-> "message", had |-> 0]
    /\ Len(sockets) = 2 /\ sockets[1].closed /\ socket = 2
    /\ token = "t1" /\ auth = "t1"
    /\ Len(updates) = 1 /\ BagCardinality(created) = 1

(* ---- the effect's dependency on the token ---- *)

\* C11: while Dashboard stays mounted with the same token, no step (a re-render, a
\* state change, a socket event, a tab change) creates a socket, closes one or
\* replaces the socket Dashboard holds.
C11_SameTokenKeepsSocket ==
    [][(dashMounted /\ dashMounted' /\ token' = token) =>
          /\ socket' = socket
          /\ Len(sockets') = Len(sockets)
          /\ \A s \in 1..Len(sockets) : sockets'[s].closed = sockets[s].closed]_vars

\* Dashboard was re-rendered with its token while its socket is connected: the
\* socket is still the first and only one, open and connected.
C11_Witness ==
    /\ lastOp.op = "render"
    /\ dashMounted /\ token = "t1" /\ auth = "t1"
    /\ Len(sockets) = 1 /\ socket = 1
    /\ ~sockets[1].closed /\ sockets[1].connected

\* C12: a change of the token from one credential to another while Dashboard is
\* mounted closes the socket of the old token, opens exactly one socket, whose auth
\* is the new token, and makes it the socket Dashboard holds and hands to
\* RealTimeUpdates, whose effect then holds the new socket.
C12_TokenChangeReplacesSocket ==
    [][(dashMounted /\ dashMounted' /\ token \in Tokens /\ token' \in Tokens
            /\ token' # token) =>
          /\ sockets'[socket].closed
          /\ Len(sockets') = Len(sockets) + 1
          /\ ~sockets'[Len(sockets')].closed
          /\ auth' = token'
          /\ socket' = Len(sockets')
          /\ rtuMounted' = rtuMounted
          /\ rtuMounted => attached' = socket']_vars

\* The token went from t1 to t2 while RealTimeUpdates was mounted: socket 1 is
\* closed, socket 2 is open with t2 and is the one the feed listens on.
C12_Witness ==
    /\ lastOp.op = "tokenChange"
    /\ token = "t2" /\ auth = "t2"
    /\ Len(sockets) = 2 /\ sockets[1].closed /\ ~sockets[2].closed
    /\ socket = 2 /\ rtuMounted /\ attached = 2
    /\ CountOwner(sockets[2].callbacks["disaster-update"], FeedListener) = 1

\* C13: while the token is null no socket that Dashboard opened is open.
C13_NoSocketWithoutToken == token = Null => OpenSockets = {}

(* ---- Dashboard's isConnected ---- *)

\* C14: after a connect or a disconnect signal of the socket Dashboard holds,
\* Dashboard's isConnected equals the socket's connected flag.
C14_FlagFollowsSignals ==
    (dashMounted /\ lastOp.op \in {"connect", "disconnect"}) =>
        dashConnected = sockets[socket].connected

\* C15: right after Dashboard has opened a socket, on its mount or on a token
\* change, its isConnected is false.
C15_DisconnectedAfterOpen ==
    (dashMounted /\ lastOp.op \in {"mount", "tokenChange"}) => ~dashConnected

(* ---- what the feed's operations leave alone ---- *)

\* C16: the Clear button changes the retained list only: both isConnected flags,
\* every socket with its registered listeners, and the socket the feed's effect is
\* attached to are the same before and after it.
C16_ClearTouchesOnlyList ==
    [][lastOp'.op = "clear" =>
          /\ dashConnected' = dashConnected
          /\ rtuConnected' = rtuConnected
          /\ sockets' = sockets
          /\ attached' = attached
          /\ socket' = socket]_vars

\* Two records were cleared while both components showed a live connection and
\* the feed's listeners were registered: flags and listeners are still there.
C16_Witness ==
    /\ lastOp = [op |-> "clear", had |-> 2]
    /\ updates = <<>>
    /\ dashConnected /\ rtuConnected
    /\ attached = socket /\ sockets[socket].connected
    /\ \A ch \in Channels : sockets[socket].callbacks[ch] = <<FeedListener>>

\* Number of callbacks of RealTimeUpdates (live or stale) on event e of socket s.
FeedCallbacks(s, e) ==
    CountOwner(sockets[s].callbacks[e], FeedListener)
        + CountOwner(sockets[s].callbacks[e], Unmounted)

\* C17: when RealTimeUpdates' effect runs with a null socket (on its mount or on a
\* change of the prop to null) it registers no listener and holds no cleanup, and
\* the retained list and isConnected keep the values they had (their initial values
\* on a mount).
C17_NullSocketIsNoOp ==
    [][(lastOp'.op \in {"feedMount", "socketProp"} /\ socket' = 0) =>
          /\ attached' = 0
          /\ \A s \in 1..Len(sockets') : \A e \in Events :
                CountOwner(sockets'[s].callbacks[e], FeedListener) = 0
          /\ updates' = (IF rtuMounted THEN updates ELSE <<>>)
          /\ rtuConnected' = (IF rtuMounted THEN rtuConnected ELSE FALSE)]_vars

\* The socket prop became null after two records were received on a connected
\* socket: nothing is registered, the records and the flag are as they were.
C17_Witness ==
    /\ lastOp = [op |-> "socketProp", had |-> 2]
    /\ rtuMounted /\ socket = 0 /\ attached = 0
    /\ Len(updates) = 2 /\ rtuConnected
    /\ \A s \in 1..Len(sockets) : \A e \in Events : sockets[s].callbacks[e] = <<>>

(* ---- pairing of attach and detach ---- *)

\* At most one callback of RealTimeUpdates per channel over all sockets.
OnePerChannel ==
    \A ch \in Channels :
        /\ \A s \in 1..Len(sockets) : FeedCallbacks(s, ch) <= 1
        /\ \A s1, s2 \in 1..Len(sockets) :
              (FeedCallbacks(s1, ch) > 0 /\ FeedCallbacks(s2, ch) > 0) => s1 = s2

\* C18: after every step at most one RealTimeUpdates callback is registered per
\* channel over all sockets, and a message delivered while the feed is attached to
\* a connected socket builds exactly one record and adds it to the retained list.
C18_OneListenerOneRecord ==
    [][/\ OnePerChannel'
       /\ (lastOp'.op = "message" /\ FeedAttached) =>
             /\ rcvCount' = rcvCount + 1
             /\ BagCardinality(created') = BagCardinality(created) + 1
             /\ Len(updates') = Min(Len(updates) + 1, Capacity)
             /\ updates'[1].rcv = rcvCount'
             /\ SubSeq(updates', 2, Len(updates')) = SubSeq(updates, 1, Len(updates') - 1)]_vars

\* The token changed while the feed was attached, and a message on the second
\* socket added exactly one record to the one received on the first.
C18_Witness ==
    /\ lastOp = [op |-> "message", had |-> 1]
    /\ Len(sockets) = 2 /\ attached = 2 /\ sockets[1].closed
    /\ Len(updates) = 2 /\ rcvCount = 2 /\ BagCardinality(created) = 2
    /\ \A ch \in Channels : sockets[2].callbacks[ch] = <<FeedListener>>

\* The sockets that carry a channel callback of RealTimeUpdates.
FeedSockets ==
    {s \in 1..Len(sockets) : \E ch \in Channels : FeedCallbacks(s, ch) > 0}

\* C19: RealTimeUpdates never has channel listeners on two sockets at once: when
\* the socket is replaced, the listeners on the old one are gone in the state in
\* which the new one carries them.
C19_ListenersOnOneSocket == Cardinality(FeedSockets) <= 1

\* The token changed while the feed was attached: the old socket carries no
\* channel listener, the new one carries one per channel.
C19_Witness ==
    /\ lastOp.op = "tokenChange"
    /\ rtuMounted /\ Len(sockets) = 2 /\ attached = 2
    /\ \A ch \in Channels : sockets[1].callbacks[ch] = <<>>
    /\ FeedSockets = {2}

\* C20: while one RealTimeUpdates instance lives, its retained list changes only
\* in a message step or a clear step; a token change, which detaches the effect
\* from the old socket and attaches it to the new one, leaves the list as it was.
C20_ListChangesOnlyByReceiptOrClear ==
    [][(rtuMounted /\ rtuMounted') =>
          /\ updates' # updates => lastOp'.op \in {"message", "clear"}
          /\ lastOp'.op = "tokenChange" => updates' = updates]_vars

\* Two records received on the first socket are retained, in order, after the
\* token change that replaced it.
C20_Witness ==
    /\ lastOp = [op |-> "tokenChange", had |-> 2]
    /\ rtuMounted /\ attached = 2 /\ sockets[1].closed
    /\ Len(updates) = 2 /\ updates[1].rcv = 2 /\ updates[2].rcv = 1

(* ---- the records ---- *)

\* C21: the type of every retained record is one of the four channel names, and
\* its data is a payload that was sent on the channel of that name, whatever the
\* payload is.
C21_RecordCarriesChannelAndPayload ==
    \A i \in 1..Len(updates) :
        /\ updates[i].type \in Channels
        /\ updates[i].data \in Sent(updates[i].type)

\* A null payload on social_media_updated was received after a malformed one on
\* resource-update: both records are retained as they came.
C21_Witness ==
    /\ lastOp = [op |-> "message", had |-> 1]
    /\ Len(updates) = 2
    /\ updates[1].type = "social_media_updated"
    /\ updates[1].data = <<"social_media_updated", "null">>
    /\ updates[2].type = "resource-update"
    /\ updates[2].data = <<"resource-update", "{malformed">>

(* ---- the feed and the socket it is handed ---- *)

\* The steps of RealTimeUpdates alone: its mount, its unmount, a change of its
\* socket prop, the receipt of a message, the Clear button.
FeedOps == {"selectTab", "leaveTab", "feedMount", "socketProp", "message", "clear"}

\* C22: no step of RealTimeUpdates creates a socket, closes one, reopens one or
\* changes whether one is connected.
C22_FeedNeverClosesSocket ==
    [][lastOp'.op \in FeedOps =>
          /\ Len(sockets') = Len(sockets)
          /\ \A s \in 1..Len(sockets) :
                /\ sockets'[s].closed = sockets[s].closed
                /\ sockets'[s].connected = sockets[s].connected]_vars

\* RealTimeUpdates received two messages on a connected socket and was unmounted:
\* its listeners are gone, the socket is still open and connected.
C22_Witness ==
    /\ lastOp.op = "leaveTab"
    /\ ~rtuMounted /\ rcvCount = 2
    /\ \E s \in 1..Len(sockets) :
          /\ ~sockets[s].closed /\ sockets[s].connected
          /\ \A e \in Events : sockets[s].callbacks[e] = <<>>

\* C23: a RealTimeUpdates instance starts with an empty list, whatever earlier
\* instances had received, and nothing is retained while none is mounted.
C23_StartsEmpty ==
    (~rtuMounted \/ lastOp.op \in {"selectTab", "feedMount"}) => updates = <<>>

\* The realtime tab was selected again after an earlier instance had received two
\* messages: the new instance's list is empty.
C23_Witness ==
    /\ lastOp = [op |-> "selectTab", had |-> 0]
    /\ rtuMounted /\ updates = <<>>
    /\ rcvCount = 2 /\ BagCardinality(created) = 2

(* ---- login and logout ---- *)

C25_DetachKeepsDashboardListeners ==
    (dashMounted /\ lastOp.op = "leaveTab") =>
        /\ CountOwner(sockets[socket].callbacks["connect"], DashListener) = 1
        /\ CountOwner(sockets[socket].callbacks["disconnect"], DashListener) = 1

\* C26: while RealTimeUpdates is mounted with a socket, its isConnected equals
\* Dashboard's isConnected.
C26_IndicatorsAgree ==
    (dashMounted /\ rtuMounted /\ attached # 0) => rtuConnected = dashConnected

(* ---- DisasterManagement's requests ---- *)

\* C27: when no request is in flight and no list request has failed, the list
\* shown is the response to the request for the current filterTag.
C27_ListMatchesFilter ==
    (requests = <<>> /\ ~failed) =>
        disasterMgmt.disasters = Response(disasterMgmt.filterTag)

\* C28: while a submit request is in flight, loading is true.
C28_LoadingWhileSubmitting ==
    (\E i \in 1..Len(requests) : requests[i].kind = "handleSubmit") =>
        disasterMgmt.loading

(* ---- failed submits ---- *)

\* The form states of ResourceManagement.
ResourceForm(rm) ==
    <<rm.formData, rm.bulkData, rm.bulkMode, rm.selectedResource, rm.isDialogOpen>>

\* C29: a step in which a submit of ResourceManagement completes without success
\* (it starts no fetchResources()) leaves formData, bulkData, bulkMode,
\* selectedResource and isDialogOpen as they were.
C29_FailedSubmitKeepsForm ==
    [][(\E i \in 1..Len(requests) :
            requests[i].kind = "handleSubmit" /\ requests' = Remove(requests, i)) =>
          ResourceForm(resourceMgmt') = ResourceForm(resourceMgmt)]_vars
====
